---- MODULE Spec2Model ----
(***************************************************************************)
(* Model of pqxx::field (include/pqxx/field.hxx): typed extraction         *)
(* (to / as / from_string), equality, the shared ownership of the result   *)
(* buffer by result and field objects, and the field_streambuf adapter.    *)
(***************************************************************************)
EXTENDS Integers, Sequences, FiniteSets, TLC

VARIABLES
    fld,      \* conversion: the cell the field under test refers to
    ty,       \* conversion: the target type T of the calls
    obj,      \* conversion: the caller's target variable (T &obj)
    call,     \* conversion: the last call made and its outcome
    asOut,    \* conversion: outcome of the last field::as<T>()
    fsOut,    \* conversion: outcome of the last from_string<T>(field)
    ecells,   \* equality: the cell of each column of the result's row
    eoids,    \* equality: the declared type of each column
    fa,       \* equality: the column field a refers to
    fb,       \* equality: the column field b refers to
    cmp,      \* equality: the last comparison made and its outcome
    bufs,     \* ownership: per buffer, "unused", "live" or "freed"
    refs,     \* ownership: per buffer, the number of shares held
    results,  \* ownership: result variables, each holding a buffer or 0
    fields,   \* ownership: field objects, each holding a buffer or 0
    streams,  \* ownership: stream adapters, the buffer of each get area or 0
    lifeOp,   \* ownership: the last operation and the state before it
    sfld,     \* stream: the cell the adapter's field refers to
    gpos,     \* stream: gptr() - eback(), the read position
    delivered,\* stream: every byte handed to the reader so far, in order
    sop       \* stream: the last streambuf call and its outcome

convVars == <<fld, ty, obj, call, asOut, fsOut>>
eqVars == <<ecells, eoids, fa, fb, cmp>>
lifeVars == <<bufs, refs, results, fields, streams, lifeOp>>
strmVars == <<sfld, gpos, delivered, sop>>
vars == <<fld, ty, obj, call, asOut, fsOut, ecells, eoids, fa, fb, cmp,
          bufs, refs, results, fields, streams, lifeOp,
          sfld, gpos, delivered, sop>>

-----------------------------------------------------------------------------
(* Bounds *)

MaxLen == 2

(* The characters cell text is made of; NUL is the terminator only. *)
Chars == {"4", "2", "x"}
NUL == "NUL"

RECURSIVE SeqsUpTo(_)
SeqsUpTo(n) ==
    IF n = 0 THEN {<<>>}
    ELSE LET shorter == SeqsUpTo(n - 1)
         IN  shorter \cup {Append(s, c) : s \in {t \in shorter : Len(t) = n - 1}, c \in Chars}

(* A cell of the result: either the null marker (with no content) or a     *)
(* text span.                                                              *)
NullCell == [null |-> TRUE, bytes |-> <<>>]
TextCell(s) == [null |-> FALSE, bytes |-> s]
Cells == {NullCell} \cup {TextCell(s) : s \in SeqsUpTo(MaxLen)}

-----------------------------------------------------------------------------
(* Raw accessors of a field *)

is_null(f) == f.null

size(f) == Len(f.bytes)

(* c_str(): the memory the returned pointer refers to, the cell's bytes    *)
(* followed by the terminating zero.                                       *)
c_str(f) == f.bytes \o <<NUL>>

(* What a reader of a zero-terminated string sees at a pointer. *)
RECURSIVE CStrRead(_)
CStrRead(mem) ==
    IF mem = <<>> \/ Head(mem) = NUL THEN <<>>
    ELSE <<Head(mem)>> \o CStrRead(Tail(mem))

view_short(f) == SubSeq(c_str(f), 1, size(f) - 1)

view(f) == SubSeq(c_str(f), 1, size(f))

-----------------------------------------------------------------------------
(* Values and types *)

Types == {"int", "string", "cstr", "opt_int", "opt_string"}

IntVal(n) == [tag |-> "int", n |-> n, s |-> <<>>]
StrVal(s) == [tag |-> "str", n |-> 0, s |-> s]
PtrVal(s) == [tag |-> "ptr", n |-> 0, s |-> s]
SomeInt(n) == [tag |-> "some_int", n |-> n, s |-> <<>>]
SomeStr(s) == [tag |-> "some_str", n |-> 0, s |-> s]
NoneVal == [tag |-> "none", n |-> 0, s |-> <<>>]
Uninit == [tag |-> "uninit", n |-> 0, s |-> <<>>]

has_null(T) == T \in {"cstr", "opt_int", "opt_string"}

null(T) == NoneVal

(* T obj; *)
DefaultInit(T) ==
    CASE T = "string" -> StrVal(<<>>)
      [] T \in {"opt_int", "opt_string"} -> NoneVal
      [] OTHER -> Uninit

(* Values a caller may hold in a variable of type T. *)
ValuesOf(T) ==
    CASE T = "int" -> {IntVal(0), IntVal(7)}
      [] T = "string" -> {StrVal(<<>>), StrVal(<<"x">>)}
      [] T = "cstr" -> {NoneVal, PtrVal(<<"x">>)}
      [] T = "opt_int" -> {NoneVal, SomeInt(7)}
      [] T = "opt_string" -> {NoneVal, SomeStr(<<"x">>)}

-----------------------------------------------------------------------------
(* Conversion engine: parse<T>(text) *)

Digits == {"4", "2"}
DigitVal(c) == IF c = "4" THEN 4 ELSE 2

RECURSIVE DecValue(_)
DecValue(s) ==
    IF s = <<>> THEN 0
    ELSE 10 * DecValue(SubSeq(s, 1, Len(s) - 1)) + DigitVal(s[Len(s)])

AllDigits(s) == s # <<>> /\ \A i \in 1..Len(s) : s[i] \in Digits

Ok(v) == [status |-> "ok", val |-> v]
ConversionError == [status |-> "conversion_error", val |-> Uninit]
NullConversionError == [status |-> "null_conversion_error", val |-> Uninit]

from_string(T, text) ==
    CASE T = "int" ->
            IF AllDigits(text) THEN Ok(IntVal(DecValue(text))) ELSE ConversionError
      [] T = "opt_int" ->
            IF AllDigits(text) THEN Ok(SomeInt(DecValue(text))) ELSE ConversionError
      [] T = "string" -> Ok(StrVal(text))
      [] T = "opt_string" -> Ok(SomeStr(text))
      [] T = "cstr" -> Ok(PtrVal(text))

-----------------------------------------------------------------------------
(* field::to, field::as and from_string<T>(field)                          *)
(* An outcome is [status, ret, obj]: how the call ended, the value it      *)
(* returned (a boolean for to, a T for as), and the target afterwards.     *)

Returned(r, o) == [status |-> "ok", ret |-> r, obj |-> o]
Threw(e, o) == [status |-> e.status, ret |-> Uninit, obj |-> o]

(* Variant: an empty text is taken for a null. *)
to_emptyIsNull(T, f, o) ==
    LET bytes == c_str(f) IN
    IF bytes[1] = NUL THEN Returned(FALSE, o)
    ELSE LET r == from_string(T, IF T = "string" THEN SubSeq(bytes, 1, size(f))
                                 ELSE CStrRead(bytes))
         IN  IF r.status = "ok" THEN Returned(TRUE, r.val) ELSE Threw(r, o)

(* Variant: a null is written into targets that can represent it. *)
to_writesNull(T, f, o) ==
    LET bytes == c_str(f) IN
    IF bytes[1] = NUL /\ is_null(f)
    THEN IF has_null(T) THEN Returned(TRUE, null(T)) ELSE Returned(FALSE, o)
    ELSE LET r == from_string(T, IF T = "string" THEN SubSeq(bytes, 1, size(f))
                                 ELSE CStrRead(bytes))
         IN  IF r.status = "ok" THEN Returned(TRUE, r.val) ELSE Threw(r, o)

to(T, f, o) ==
    LET bytes == c_str(f) IN
    CASE T = "string" ->
            IF bytes[1] = NUL /\ is_null(f) THEN Returned(FALSE, o)
            ELSE Returned(TRUE, StrVal(SubSeq(bytes, 1, size(f))))
      [] T = "cstr" ->
            IF is_null(f) THEN Returned(FALSE, o)
            ELSE Returned(TRUE, PtrVal(CStrRead(bytes)))
      [] OTHER ->
            IF bytes[1] = NUL /\ is_null(f) THEN Returned(FALSE, o)
            ELSE LET r == from_string(T, CStrRead(bytes))
                 IN  IF r.status = "ok" THEN Returned(TRUE, r.val) ELSE Threw(r, o)

(* Variant: the default is not stored. *)
to_default_keeps(T, f, o, d) == to(T, f, o)

(* Variant: a failed conversion is absorbed like a null. *)
to_default_absorbs(T, f, o, d) ==
    LET r == to(T, f, o) IN
    IF r.status # "ok" \/ ~r.ret THEN Returned(FALSE, d) ELSE r

to_default(T, f, o, d) ==
    LET r == to(T, f, o) IN
    IF r.status # "ok" THEN r
    ELSE IF ~r.ret THEN Returned(FALSE, d) ELSE r

as_default(T, f, d) ==
    LET r == to_default(T, f, DefaultInit(T), d) IN
    IF r.status # "ok" THEN Threw(r, Uninit) ELSE Returned(r.obj, Uninit)

(* Variant: a null never throws, the default-initialised object is returned. *)
as_noThrow(T, f) ==
    LET r == to(T, f, DefaultInit(T)) IN
    IF r.status # "ok" THEN Threw(r, Uninit)
    ELSE IF ~r.ret /\ has_null(T) THEN Returned(null(T), Uninit)
    ELSE Returned(r.obj, Uninit)

as(T, f) ==
    LET r == to(T, f, DefaultInit(T)) IN
    IF r.status # "ok" THEN Threw(r, Uninit)
    ELSE IF ~r.ret
         THEN IF has_null(T) THEN Returned(null(T), Uninit)
              ELSE Threw(NullConversionError, Uninit)
         ELSE Returned(r.obj, Uninit)

from_string_field(T, f) ==
    IF is_null(f)
    THEN IF has_null(T) THEN Returned(null(T), Uninit)
         ELSE Threw(NullConversionError, Uninit)
    ELSE LET r == from_string(T, view(f))
         IN  IF r.status = "ok" THEN Returned(r.val, Uninit) ELSE Threw(r, Uninit)

-----------------------------------------------------------------------------
(* Conversion calls on one field *)

NoCall == [op |-> "none", before |-> Uninit, dflt |-> Uninit,
           status |-> "none", ret |-> Uninit]
NoOutcome == [status |-> "none", ret |-> Uninit, obj |-> Uninit]

Made(op, before, d, r) ==
    [op |-> op, before |-> before, dflt |-> d, status |-> r.status, ret |-> r.ret]

ConvInit ==
    /\ fld \in Cells
    /\ ty \in Types
    /\ obj \in ValuesOf(ty)
    /\ call = NoCall
    /\ asOut = NoOutcome
    /\ fsOut = NoOutcome

CallTo ==
    LET r == to(ty, fld, obj) IN
    /\ obj' = r.obj
    /\ call' = Made("to", obj, Uninit, r)
    /\ UNCHANGED <<fld, ty, asOut, fsOut>>
    /\ UNCHANGED <<eqVars, lifeVars, strmVars>>

CallToDefault ==
    \E d \in ValuesOf(ty) :
        LET r == to_default(ty, fld, obj, d) IN
        /\ obj' = r.obj
        /\ call' = Made("to_default", obj, d, r)
        /\ UNCHANGED <<fld, ty, asOut, fsOut>>
        /\ UNCHANGED <<eqVars, lifeVars, strmVars>>

CallAsDefault ==
    \E d \in ValuesOf(ty) :
        LET r == as_default(ty, fld, d) IN
        /\ call' = Made("as_default", obj, d, r)
        /\ UNCHANGED <<fld, ty, obj, asOut, fsOut>>
        /\ UNCHANGED <<eqVars, lifeVars, strmVars>>

CallAs ==
    LET r == as(ty, fld) IN
    /\ call' = Made("as", obj, Uninit, r)
    /\ asOut' = r
    /\ UNCHANGED <<fld, ty, obj, fsOut>>
    /\ UNCHANGED <<eqVars, lifeVars, strmVars>>

CallFromString ==
    LET r == from_string_field(ty, fld) IN
    /\ call' = Made("from_string", obj, Uninit, r)
    /\ fsOut' = r
    /\ UNCHANGED <<fld, ty, obj, asOut>>
    /\ UNCHANGED <<eqVars, lifeVars, strmVars>>

(* The caller stores a value of its own in the target. *)
Assign ==
    \E v \in ValuesOf(ty) :
        /\ v # obj
        /\ obj' = v
        /\ call' = NoCall
        /\ UNCHANGED <<fld, ty, asOut, fsOut>>
        /\ UNCHANGED <<eqVars, lifeVars, strmVars>>

ConvNext ==
    \/ CallTo
    \/ CallToDefault
    \/ CallAsDefault
    \/ CallAs
    \/ CallFromString
    \/ Assign

-----------------------------------------------------------------------------
(* Equality of two fields of one result row *)

NCols == 2
Cols == 0..(NCols - 1)
Oids == {23, 25}

(* The declared type of each column: integer and text columns alternate. *)
ColOid(c) == IF c % 2 = 0 THEN 23 ELSE 25

(* operator==: byte-for-byte, all nulls equal, a null equal to no value. *)
field_eq(a, b) ==
    IF is_null(a) /\ is_null(b) THEN TRUE
    ELSE IF is_null(a) # is_null(b) THEN FALSE
    ELSE size(a) = size(b) /\ view(a) = view(b)

(* Variant: != compares the bytes only. *)
field_ne_bytes(a, b) == view(a) # view(b)

field_ne(a, b) == ~field_eq(a, b)

NoCmp == [op |-> "none", a |-> 0, b |-> 0, ret |-> FALSE]

EqInit ==
    /\ ecells \in [Cols -> Cells]
    /\ eoids = [c \in Cols |-> ColOid(c)]
    /\ fa = 0
    /\ fb = 0
    /\ cmp = NoCmp

(* field a{row, c}; *)
IndexA ==
    \E c \in Cols :
        /\ c # fa
        /\ fa' = c
        /\ cmp' = NoCmp
        /\ UNCHANGED <<ecells, eoids, fb>>
        /\ UNCHANGED <<convVars, lifeVars, strmVars>>

IndexB ==
    \E c \in Cols :
        /\ c # fb
        /\ fb' = c
        /\ cmp' = NoCmp
        /\ UNCHANGED <<ecells, eoids, fa>>
        /\ UNCHANGED <<convVars, lifeVars, strmVars>>

CompareEq ==
    /\ cmp' = [op |-> "==", a |-> fa, b |-> fb, ret |-> field_eq(ecells[fa], ecells[fb])]
    /\ UNCHANGED <<ecells, eoids, fa, fb>>
    /\ UNCHANGED <<convVars, lifeVars, strmVars>>

CompareNe ==
    /\ cmp' = [op |-> "!=", a |-> fa, b |-> fb, ret |-> field_ne(ecells[fa], ecells[fb])]
    /\ UNCHANGED <<ecells, eoids, fa, fb>>
    /\ UNCHANGED <<convVars, lifeVars, strmVars>>

EqNext ==
    \/ IndexA
    \/ IndexB
    \/ CompareEq
    \/ CompareNe

-----------------------------------------------------------------------------
(* Shared ownership of result buffers *)

NBufs == 2
NResults == 2
NFields == 2
NStreams == 1

Bufs == 1..NBufs
ResultVars == 1..NResults
FieldObjs == 1..NFields
StreamObjs == 1..NStreams

(* One more holder of buffer b. *)
Acquire(rc, b) == [rc EXCEPT ![b] = @ + 1]

(* A holder of buffer b goes away; the last one frees the buffer. *)
ReleaseRefs(rc, b) == [rc EXCEPT ![b] = @ - 1]
ReleaseBufs(bs, rc, b) == IF rc[b] = 1 THEN [bs EXCEPT ![b] = "freed"] ELSE bs

(* Variant: the field refers to the result without holding it. *)
FieldHome_borrowed(rc, b) == rc

(* result m_home: a field holds a result object of its own. *)
FieldHome(rc, b) == Acquire(rc, b)

(* field const &m_field: the stream buffer refers to the caller's field. *)
StreambufField(rc, b) == rc

(* A new object takes the first free place of its kind. *)
FirstFree(h) == {x \in DOMAIN h : h[x] = 0 /\ \A y \in DOMAIN h : y < x => h[y] # 0}

Did(op, b) == [op |-> op, buf |-> b, refsBefore |-> refs, bufsBefore |-> bufs]

LifeInit ==
    /\ bufs = [b \in Bufs |-> "unused"]
    /\ refs = [b \in Bufs |-> 0]
    /\ results = [r \in ResultVars |-> 0]
    /\ fields = [f \in FieldObjs |-> 0]
    /\ streams = [s \in StreamObjs |-> 0]
    /\ lifeOp = [op |-> "none", buf |-> 0, refsBefore |-> refs, bufsBefore |-> bufs]

(* A query is executed and its result stored in variable r. *)
Exec ==
    \E r \in FirstFree(results), b \in Bufs :
        /\ bufs[b] = "unused"
        /\ \A c \in Bufs : c < b => bufs[c] # "unused"
        /\ bufs' = [bufs EXCEPT ![b] = "live"]
        /\ refs' = Acquire(refs, b)
        /\ results' = [results EXCEPT ![r] = b]
        /\ lifeOp' = Did("exec", b)
        /\ UNCHANGED <<fields, streams>>
        /\ UNCHANGED <<convVars, eqVars, strmVars>>

CopyResult ==
    \E r \in ResultVars, q \in FirstFree(results) :
        /\ results[r] # 0
        /\ results' = [results EXCEPT ![q] = results[r]]
        /\ refs' = Acquire(refs, results[r])
        /\ lifeOp' = Did("copy_result", results[r])
        /\ UNCHANGED <<bufs, fields, streams>>
        /\ UNCHANGED <<convVars, eqVars, strmVars>>

DropResult ==
    \E r \in ResultVars :
        /\ results[r] # 0
        /\ results' = [results EXCEPT ![r] = 0]
        /\ refs' = ReleaseRefs(refs, results[r])
        /\ bufs' = ReleaseBufs(bufs, refs, results[r])
        /\ lifeOp' = Did("drop_result", results[r])
        /\ UNCHANGED <<fields, streams>>
        /\ UNCHANGED <<convVars, eqVars, strmVars>>

(* field f{r[row], col}; *)
MakeField ==
    \E r \in ResultVars, f \in FirstFree(fields) :
        /\ results[r] # 0
        /\ fields' = [fields EXCEPT ![f] = results[r]]
        /\ refs' = FieldHome(refs, results[r])
        /\ lifeOp' = Did("make_field", results[r])
        /\ UNCHANGED <<bufs, results, streams>>
        /\ UNCHANGED <<convVars, eqVars, strmVars>>

CopyField ==
    \E f \in FieldObjs, g \in FirstFree(fields) :
        /\ fields[f] # 0
        /\ fields' = [fields EXCEPT ![g] = fields[f]]
        /\ refs' = FieldHome(refs, fields[f])
        /\ lifeOp' = Did("copy_field", fields[f])
        /\ UNCHANGED <<bufs, results, streams>>
        /\ UNCHANGED <<convVars, eqVars, strmVars>>

DropField ==
    \E f \in FieldObjs :
        /\ fields[f] # 0
        /\ fields' = [fields EXCEPT ![f] = 0]
        /\ refs' = ReleaseRefs(refs, fields[f])
        /\ bufs' = ReleaseBufs(bufs, refs, fields[f])
        /\ lifeOp' = Did("drop_field", fields[f])
        /\ UNCHANGED <<results, streams>>
        /\ UNCHANGED <<convVars, eqVars, strmVars>>

(* fieldstream s{f}; the get area is set to f's bytes in the buffer. The   *)
(* reference to f is used during construction only.                        *)
MakeStream ==
    \E f \in FieldObjs, s \in FirstFree(streams) :
        /\ fields[f] # 0
        /\ streams' = [streams EXCEPT ![s] = fields[f]]
        /\ refs' = StreambufField(refs, fields[f])
        /\ lifeOp' = Did("make_stream", fields[f])
        /\ UNCHANGED <<bufs, results, fields>>
        /\ UNCHANGED <<convVars, eqVars, strmVars>>

DropStream ==
    \E s \in StreamObjs :
        /\ streams[s] # 0
        /\ streams' = [streams EXCEPT ![s] = 0]
        /\ lifeOp' = Did("drop_stream", streams[s])
        /\ UNCHANGED <<bufs, refs, results, fields>>
        /\ UNCHANGED <<convVars, eqVars, strmVars>>

LifeNext ==
    \/ Exec
    \/ CopyResult
    \/ DropResult
    \/ MakeField
    \/ CopyField
    \/ DropField
    \/ MakeStream
    \/ DropStream

-----------------------------------------------------------------------------
(* field_streambuf: a std::basic_streambuf over the field's bytes *)

MaxRead == 2
EOF == "eof"

(* initialize(): setg(g, g, g + size()) over the memory at c_str(). *)
initialize(f) == [mem |-> c_str(f), eback |-> 0, gptr |-> 0, egptr |-> size(f)]

(* The virtual functions: what each returns and where it leaves gptr. *)
sync(g) == [ret |-> EOF, gptr |-> g]

(* Variant: seeking to an offset from the beginning is honoured. *)
seekoff_rewinds(g, off) == [ret |-> "sought", gptr |-> off]

seekoff(g, off) == [ret |-> EOF, gptr |-> g]

seekpos(g, pos) == [ret |-> EOF, gptr |-> g]

overflow(g, c) == [ret |-> EOF, gptr |-> g]

underflow(g) == [ret |-> EOF, gptr |-> g]

(* The get area's bytes from gptr on, at most n of them. *)
Available(f, g, n) ==
    LET area == initialize(f)
        last == IF g + n < area.egptr THEN g + n ELSE area.egptr
    IN  SubSeq(area.mem, g + 1, last)

SDid(op, ret, got) == [op |-> op, ret |-> ret, got |-> got, posBefore |-> gpos]

StreamInit ==
    /\ sfld \in Cells
    /\ gpos = initialize(sfld).gptr
    /\ delivered = <<>>
    /\ sop = [op |-> "none", ret |-> EOF, got |-> <<>>, posBefore |-> 0]

(* sbumpc(): the next byte of the get area, or uflow() -> underflow(). *)
Sbumpc ==
    LET got == Available(sfld, gpos, 1) IN
    /\ IF got # <<>>
       THEN /\ gpos' = gpos + 1
            /\ delivered' = delivered \o got
            /\ sop' = SDid("sbumpc", got[1], got)
       ELSE /\ gpos' = underflow(gpos).gptr
            /\ sop' = SDid("sbumpc", underflow(gpos).ret, <<>>)
            /\ UNCHANGED delivered
    /\ UNCHANGED sfld
    /\ UNCHANGED <<convVars, eqVars, lifeVars>>

(* sgetn(s, n): bytes of the get area until underflow() reports the end. *)
Sgetn ==
    \E n \in 1..MaxRead :
        LET got == Available(sfld, gpos, n) IN
        /\ gpos' = IF Len(got) < n THEN underflow(gpos + Len(got)).gptr
                   ELSE gpos + Len(got)
        /\ delivered' = delivered \o got
        /\ sop' = SDid("sgetn", Len(got), got)
        /\ UNCHANGED sfld
        /\ UNCHANGED <<convVars, eqVars, lifeVars>>

(* pubseekoff(off, beg) *)
Seekoff ==
    \E off \in 0..size(sfld) :
        /\ gpos' = seekoff(gpos, off).gptr
        /\ sop' = SDid("seekoff", seekoff(gpos, off).ret, <<>>)
        /\ UNCHANGED <<sfld, delivered>>
        /\ UNCHANGED <<convVars, eqVars, lifeVars>>

(* pubseekpos(pos) *)
Seekpos ==
    \E pos \in 0..size(sfld) :
        /\ gpos' = seekpos(gpos, pos).gptr
        /\ sop' = SDid("seekpos", seekpos(gpos, pos).ret, <<>>)
        /\ UNCHANGED <<sfld, delivered>>
        /\ UNCHANGED <<convVars, eqVars, lifeVars>>

(* sputc(c): there is no put area, so overflow(c) decides. *)
Sputc ==
    \E c \in Chars :
        /\ gpos' = overflow(gpos, c).gptr
        /\ sop' = SDid("overflow", overflow(gpos, c).ret, <<>>)
        /\ UNCHANGED <<sfld, delivered>>
        /\ UNCHANGED <<convVars, eqVars, lifeVars>>

(* pubsync() *)
Pubsync ==
    /\ gpos' = sync(gpos).gptr
    /\ sop' = SDid("sync", sync(gpos).ret, <<>>)
    /\ UNCHANGED <<sfld, delivered>>
    /\ UNCHANGED <<convVars, eqVars, lifeVars>>

StreamNext ==
    \/ Sbumpc
    \/ Sgetn
    \/ Seekoff
    \/ Seekpos
    \/ Sputc
    \/ Pubsync

-----------------------------------------------------------------------------
(* Specifications: each part runs with the other parts at rest. *)

ConvIdle ==
    /\ fld = NullCell
    /\ ty = "int"
    /\ obj = Uninit
    /\ call = NoCall
    /\ asOut = NoOutcome
    /\ fsOut = NoOutcome

EqIdle ==
    /\ ecells = [c \in Cols |-> NullCell]
    /\ eoids = [c \in Cols |-> ColOid(c)]
    /\ fa = 0
    /\ fb = 0
    /\ cmp = NoCmp

StreamIdle ==
    /\ sfld = NullCell
    /\ gpos = 0
    /\ delivered = <<>>
    /\ sop = [op |-> "none", ret |-> EOF, got |-> <<>>, posBefore |-> 0]

Init == ConvInit /\ EqIdle /\ LifeInit /\ StreamIdle
Next == ConvNext
Spec == Init /\ [][Next]_vars

SpecEqInit == ConvIdle /\ EqInit /\ LifeInit /\ StreamIdle
SpecEqNext == EqNext
SpecEq == SpecEqInit /\ [][SpecEqNext]_vars

SpecLifeInit == ConvIdle /\ EqIdle /\ LifeInit /\ StreamIdle
SpecLifeNext == LifeNext
SpecLife == SpecLifeInit /\ [][SpecLifeNext]_vars

SpecStreamInit == ConvIdle /\ EqIdle /\ LifeInit /\ StreamInit
SpecStreamNext == StreamNext
SpecStream == SpecStreamInit /\ [][SpecStreamNext]_vars

-----------------------------------------------------------------------------
(* Properties *)

(* What the conversion engine makes of the field's raw text. *)
Parsed == from_string(ty, fld.bytes)

(* C1: as<T>() on a non-null field yields what parsing the field's raw     *)
(* text yields (text "42" as int gives 42); on a null field it returns T's *)
(* null representation when T has one, and otherwise fails with            *)
(* NullConversionError and returns no value.                               *)
C1_AsOutcomes ==
    call.op = "as" =>
        /\ ~is_null(fld) =>
              /\ call.status = Parsed.status
              /\ Parsed.status = "ok" => call.ret = Parsed.val
        /\ (is_null(fld) /\ has_null(ty)) =>
              (call.status = "ok" /\ call.ret = null(ty))
        /\ (is_null(fld) /\ ~has_null(ty)) =>
              (call.status = "null_conversion_error" /\ call.ret = Uninit)
        /\ (ty = "int" /\ fld = TextCell(<<"4", "2">>)) =>
              (call.status = "ok" /\ call.ret = IntVal(42))

C1_Witness ==
    /\ call.op = "as"
    /\ ty = "int"
    /\ is_null(fld)
    /\ call.status = "null_conversion_error"

(* C2: for a type without a null representation, to(target) returns false  *)
(* exactly when the field is null, a false return leaves the target as it  *)
(* was, and a non-null empty text is a value: to<std::string> returns true *)
(* and stores the empty string.                                            *)
C2_ToFalseIffNull ==
    (call.op = "to" /\ ~has_null(ty)) =>
        /\ is_null(fld) => (call.status = "ok" /\ call.ret = FALSE)
        /\ (call.status = "ok" /\ call.ret = FALSE) =>
              (is_null(fld) /\ obj = call.before)
        /\ (ty = "string" /\ fld = TextCell(<<>>)) =>
              (call.status = "ok" /\ call.ret = TRUE /\ obj = StrVal(<<>>))

C2_Witness ==
    /\ call.op = "to"
    /\ ty = "string"
    /\ fld = TextCell(<<>>)
    /\ call.before = StrVal(<<"x">>)
    /\ call.ret = TRUE
    /\ obj = StrVal(<<>>)

C4_DefaultIffNull ==
    /\ call.op = "to_default" =>
          /\ is_null(fld) =>
                (call.status = "ok" /\ call.ret = FALSE /\ obj = call.dflt)
          /\ (~is_null(fld) /\ call.status = "ok") =>
                (call.ret = TRUE /\ obj = Parsed.val)
    /\ call.op = "as_default" =>
          /\ is_null(fld) => (call.status = "ok" /\ call.ret = call.dflt)
          /\ (~is_null(fld) /\ call.status = "ok") => call.ret = Parsed.val

C4_Witness ==
    /\ call.op = "as_default"
    /\ is_null(fld)
    /\ ty = "opt_int"
    /\ call.dflt = SomeInt(7)
    /\ call.ret = SomeInt(7)

(* C5: on a non-null field whose text is malformed for T, to(target),      *)
(* to(target, d) and as<T>(d) all fail with ConversionError: none returns  *)
(* a value, and the target does not receive the default.                   *)
C5_MalformedAlwaysThrows ==
    (/\ call.op \in {"to", "to_default", "as_default"}
     /\ ~is_null(fld)
     /\ Parsed.status = "conversion_error") =>
        /\ call.status = "conversion_error"
        /\ call.ret = Uninit
        /\ obj = call.dflt => call.before = call.dflt

C5_Witness ==
    /\ call.op = "to_default"
    /\ ty = "int"
    /\ fld = TextCell(<<"4", "x">>)
    /\ call.status = "conversion_error"

(* C10: from_string<T>(field) and as<T>() agree on every field and type:   *)
(* the same null representation or NullConversionError on a null field,    *)
(* the same parsed value or ConversionError on a non-null one.             *)
C10_FromStringAgreesWithAs ==
    (asOut.status # "none" /\ fsOut.status # "none") =>
        /\ asOut = fsOut
        /\ (is_null(fld) /\ has_null(ty)) =>
              (fsOut.status = "ok" /\ fsOut.ret = null(ty))
        /\ (is_null(fld) /\ ~has_null(ty)) =>
              fsOut.status = "null_conversion_error"
        /\ ~is_null(fld) => fsOut.status \in {"ok", "conversion_error"}

C10_Witness ==
    /\ ty = "int"
    /\ fld = TextCell(<<"4", "2">>)
    /\ asOut.status = "ok"
    /\ fsOut.status = "ok"
    /\ fsOut.ret = IntVal(42)

(* C6: a == b iff both fields are null (whatever their declared types) or  *)
(* both are non-null with identical bytes; two fields over the same column *)
(* of the row are equal; a != b is the negation of a == b.                 *)
C6_EqualityRule ==
    LET a == ecells[cmp.a]
        b == ecells[cmp.b]
        same == \/ a.null /\ b.null
                \/ ~a.null /\ ~b.null /\ a.bytes = b.bytes
    IN  /\ cmp.op = "==" => (cmp.ret = same /\ (cmp.a = cmp.b => cmp.ret))
        /\ cmp.op = "!=" => (cmp.ret = ~same /\ (cmp.a = cmp.b => ~cmp.ret))

C6_Witness ==
    /\ cmp.op = "!="
    /\ ecells[cmp.a] = NullCell
    /\ ecells[cmp.b] = TextCell(<<>>)
    /\ cmp.ret = TRUE

(* C7: the buffer of every existing field is alive, whatever result        *)
(* variables remain; copying a field adds one share of the same buffer and *)
(* creates or frees no buffer.                                             *)
C7_FieldKeepsBufferAlive ==
    /\ \A f \in FieldObjs : fields[f] # 0 => bufs[fields[f]] = "live"
    /\ lifeOp.op = "copy_field" =>
          /\ refs[lifeOp.buf] = lifeOp.refsBefore[lifeOp.buf] + 1
          /\ bufs = lifeOp.bufsBefore
          /\ Cardinality({f \in FieldObjs : fields[f] = lifeOp.buf}) >= 2

C7_Witness ==
    /\ lifeOp.op = "copy_field"
    /\ \A r \in ResultVars : results[r] # lifeOp.buf
    /\ bufs[lifeOp.buf] = "live"
    /\ refs[lifeOp.buf] = 2

(* C8: the buffer a stream adapter reads from is alive for as long as the  *)
(* adapter exists, whoever else has let go of the result.                  *)
C8_StreamKeepsBufferAlive ==
    \A s \in StreamObjs : streams[s] # 0 => bufs[streams[s]] = "live"

(* C9: seeks, writes and syncs report failure and leave the read position  *)
(* alone; what the reads have delivered is the field's bytes from the      *)
(* first one on, in order, none twice and none left out; a read at the end *)
(* reports end-of-file and delivers nothing; a null field delivers nothing.*)
C9_ReadOnlySinglePass ==
    /\ gpos \in 0..size(sfld)
    /\ delivered = SubSeq(sfld.bytes, 1, gpos)
    /\ sop.op \in {"seekoff", "seekpos", "overflow", "sync"} =>
          (sop.ret = EOF /\ gpos = sop.posBefore /\ sop.got = <<>>)
    /\ (sop.op = "sbumpc" /\ sop.posBefore = size(sfld)) =>
          (sop.ret = EOF /\ sop.got = <<>> /\ gpos = sop.posBefore)
    /\ (sop.op = "sgetn" /\ sop.posBefore = size(sfld)) =>
          (sop.ret = 0 /\ sop.got = <<>> /\ gpos = sop.posBefore)
    /\ sop.op \in {"sbumpc", "sgetn"} =>
          sop.got = SubSeq(sfld.bytes, sop.posBefore + 1, gpos)
    /\ is_null(sfld) => delivered = <<>>

C9_Witness ==
    /\ size(sfld) = 2
    /\ sop.op = "sbumpc"
    /\ sop.ret = EOF
    /\ delivered = sfld.bytes

====
